---- MODULE Spec2Model ----
\* State-machine model of the Brent oil analysis dashboard front end:
\*   VolatilityChart   (frontend/README.md, embedded component source)
\*   ImpactMetrics     (frontend/src/components/ImpactMetrics.js)
\*   EventTimeline     (frontend/src/components/EvenTimeline.js)
\*   Dashboard         (frontend/src/components/Dashboard.js)
\*   ChangePointChart  (frontend/README.md, embedded component source)
\*   PriceChart        (frontend/src/components/PriceChart.js)
\*   DateRangePicker   (frontend/src/components/DataRangePicker.js)
\* and of the engine stages the front end reads from, which are described by
\* the design document only: Posterior Summarizer, Impact Quantifier and the
\* sampling chains of the Inference Model.
\*
\* Numbers: volatility values and baselines range over integers, on which the
\* products avg * 1.2 and avg * 0.8 of the code compare as the exact rationals
\* do; probabilities are integers in percent (0.8 is 80); dates are integer
\* calendar-day numbers, except in the DateRangePicker, where a date is a
\* year, a month, a day and a time of day.
EXTENDS Integers, Sequences, FiniteSets, TLC

VARIABLES
    \* VolatilityChart
    volatilityData,     \* Dashboard state volatilityData, the chart's prop
    vcChartData,        \* useState chartData of VolatilityChart
    volatilityRegime,   \* useState volatilityRegime of VolatilityChart
    \* ImpactMetrics / EventTimeline props and state
    events,             \* Dashboard state events (prop of the children)
    changePoints,       \* Dashboard state changePoints (prop of the children)
    timelineData,       \* useState timelineData of EventTimeline
    \* Dashboard
    loading, error, priceData, summary, eventTypes,
    dateRange, selectedEventType, minProbability,
    mounted,            \* the Dashboard's mount effects have run
    pickerMounted,      \* the DateRangePicker's mount effect has run
    inflight,           \* request batches awaiting Promise.all
    nextId,             \* id given to the next request batch
    failedBatches,      \* history: kinds of the batches in which a request failed
    changes,            \* history: number of filter changes made by the user
    \* ChangePointChart / PriceChart
    cpChartData,        \* useState chartData of ChangePointChart
    pcChartData,        \* useState chartData of PriceChart
    propsGiven,         \* history: the arrays as last stored by setEvents / setChangePoints
    \* selection
    highlightedEvent,   \* Dashboard state highlightedEvent
    selectedCP,         \* useState selectedCP of ChangePointChart
    selectedEvent,      \* useState selectedEvent of EventTimeline
    lastSelected,       \* history: the item of the last click in a view
    \* DateRangePicker
    startDate, endDate, \* useState startDate / endDate of DateRangePicker
    emitted,            \* history: the calls of onDateRangeChange, in order
    lastClick,          \* history: the last user action on the picker
    \* Posterior Summarizer
    posterior,          \* per-index probability vector handed to the Summarizer
    cpOut,              \* emitted ChangePoint sequence
    summarized,         \* the Summarizer has run on posterior
    \* Impact Quantifier
    impactInput,        \* price series, anchor and window length of the request
    impactRecord,       \* emitted ImpactRecord, <<>> when there is none
    quantified,         \* the Quantifier has run on impactInput
    \* Inference Model sampling chains
    chainState,         \* per chain: "running", "completed" or "timedOut"
    chainSamples,       \* per chain: its own sample set (a sequence of draws)
    merged,             \* the merge step has run
    mergedSamples,      \* the merged sample set
    \* Inference Model budget
    inferBudget,        \* iteration and wall-clock budget of the run
    iterations,         \* sampling iterations done
    elapsed,            \* wall-clock time used
    inferResult,        \* the returned result and its tag, "none" while running
    \* Dashboard history
    writes              \* history: per state field, the batch that wrote it last
                        \* and whether fetchAllData has written it

volVars  == <<volatilityData, vcChartData, volatilityRegime>>
corrVars == <<timelineData>>
dataVars == <<events, changePoints>>
dashVars == <<loading, error, priceData, summary, eventTypes,
              dateRange, selectedEventType, minProbability, mounted,
              pickerMounted, inflight, nextId, failedBatches, changes>>
chartVars == <<cpChartData, pcChartData>>
selVars  == <<highlightedEvent, selectedCP, selectedEvent, lastSelected>>
pickVars == <<startDate, endDate, emitted, lastClick>>
uiVars   == <<propsGiven, writes, selVars, pickVars>>
summVars == <<posterior, cpOut, summarized>>
impVars  == <<impactInput, impactRecord, quantified>>
chainVars == <<chainState, chainSamples, merged, mergedSamples>>
inferVars == <<inferBudget, iterations, elapsed, inferResult>>
engineVars == <<summVars, impVars, chainVars, inferVars>>
vars == <<volVars, corrVars, dataVars, dashVars, chartVars, uiVars, engineVars>>

\* ---------------------------------------------------------------- bounds
MaxYears == 1
MaxEvents == 2
MaxCPs == 2
MaxChanges == 2
MaxPrices == 4
MaxEmits == 2
MaxIndices == 7
MaxSeries == 4
MaxChains == 2
MaxSamples == 2
MaxBudget == 3
MaxListLen == 12

\* A number that is null or undefined in the JavaScript value.
NullNum == -1

Truthy(x) == x # NullNum /\ x # 0

\* ------------------------------------------------------- VolatilityChart
\* Volatility values and baselines. With baseline 5 the boundaries
\* are 4 and 6; with baseline 10 they are 8 and 12.
VolValues == {0, 4, 6, 12}
VolBaselines == {NullNum, 0, 5, 10}

SeqsUpTo(S, n) == UNION {[1..k -> S] : k \in 0..n}

\* Faulty variant of YearlyRegime: the boundaries compared with >= and <=.
YearlyRegimeGE(v, avg) ==
    IF avg # NullNum /\ 10 * v >= 12 * avg THEN "High"
    ELSE IF avg # NullNum /\ 10 * v <= 8 * avg THEN "Low"
    ELSE "Normal"

\* values[index] > avg * 1.2 ? 'High' : values[index] < avg * 0.8 ? 'Low' : 'Normal'
\* (an undefined avg makes both comparisons false: NaN)
YearlyRegime(v, avg) ==
    IF avg # NullNum /\ 10 * v > 12 * avg THEN "High"
    ELSE IF avg # NullNum /\ 10 * v < 8 * avg THEN "Low"
    ELSE "Normal"

\* current > avg * 1.2 ? 'High' : current < avg * 0.8 ? 'Low' : 'Normal'
CurrentRegime(current, avg) ==
    IF 10 * current > 12 * avg THEN "High"
    ELSE IF 10 * current < 8 * avg THEN "Low"
    ELSE "Normal"

\* (current / avg).toFixed(2), in hundredths, rounded to nearest
RatioFixed2(current, avg) == (200 * current + avg) \div (2 * avg)

NoRegime == [isNull |-> TRUE, current |-> NullNum, avg |-> NullNum,
             ratio |-> NullNum, regime |-> "null"]

NoVolatilityData == [isNull |-> TRUE, current |-> NullNum, avg |-> NullNum,
                     hasYearly |-> FALSE, values |-> <<>>]

VolatilityInputs ==
    {NoVolatilityData} \cup
    { [isNull |-> FALSE, current |-> c, avg |-> a, hasYearly |-> h, values |-> vs] :
        c \in VolValues \cup {NullNum}, a \in VolBaselines,
        h \in BOOLEAN, vs \in SeqsUpTo(VolValues, MaxYears) }

FormatYearly(vd) ==
    [i \in 1..Len(vd.values) |->
        [year |-> i, volatility |-> 100 * vd.values[i], volatilityValue |-> vd.values[i],
         regime |-> YearlyRegime(vd.values[i], vd.avg)]]

\* The useEffect of VolatilityChart, run when the volatilityData prop changes.
VolatilityEffect(vd) ==
    /\ volatilityData' = vd
    /\ vcChartData' =
         IF ~vd.isNull /\ vd.hasYearly THEN FormatYearly(vd) ELSE vcChartData
    /\ volatilityRegime' =
         IF ~vd.isNull /\ Truthy(vd.current) /\ Truthy(vd.avg)
         THEN [isNull |-> FALSE, current |-> 100 * vd.current, avg |-> 100 * vd.avg,
               ratio |-> RatioFixed2(vd.current, vd.avg),
               regime |-> CurrentRegime(vd.current, vd.avg)]
         ELSE volatilityRegime

VolatilityDataUpdate ==
    /\ \E vd \in VolatilityInputs :
         /\ (vd.hasYearly \/ vd.values = <<>>)
         /\ VolatilityEffect(vd)
    /\ UNCHANGED <<corrVars, dataVars, dashVars, chartVars, uiVars, engineVars>>

\* ------------------------------------------- events and change points
\* Dates are calendar days; moment(a).diff(moment(b), 'days') of two date-only
\* values is the signed number of whole days from b to a.
MomentDiffDays(a, b) == a - b

Abs(x) == IF x < 0 THEN -x ELSE x

\* Events of the catalogue: two with an impact record, one without.
EventCatalogueSeq ==
    << [name |-> "e100", date |-> 100, type |-> "conflict", hasImpact |-> TRUE,  pct |-> 10],
       [name |-> "e101", date |-> 101, type |-> "opec",     hasImpact |-> FALSE, pct |-> NullNum],
       [name |-> "e120", date |-> 120, type |-> "opec",     hasImpact |-> TRUE,  pct |-> -25] >>

Range(s) == {s[i] : i \in 1..Len(s)}

EventCatalogue == Range(EventCatalogueSeq)

\* Change points of the catalogue. From e100: 69 is 31 days away, 70 is 30,
\* 90 and 110 are 10 on either side; from e120: 90 is 30, 151 is 31.
CPCatalogueSeq ==
    << [date |-> 69,  probability |-> 85],
       [date |-> 70,  probability |-> 60],
       [date |-> 90,  probability |-> 90],
       [date |-> 110, probability |-> 95],
       [date |-> 151, probability |-> 100] >>

CPCatalogue == Range(CPCatalogueSeq)

Distinct(s) == \A i, j \in 1..Len(s) : i # j => s[i] # s[j]

EventLists == {s \in SeqsUpTo(EventCatalogue, MaxEvents) : Distinct(s)}
CPLists == {s \in SeqsUpTo(CPCatalogue, MaxCPs) : Distinct(s)}

\* Faulty variant of WithinTolerance: a window of 31 days.
WithinTolerance31(cp, event) == Abs(MomentDiffDays(cp.date, event.date)) <= 31

\* Math.abs(moment(cp.date).diff(moment(event.date), 'days')) <= 30
WithinTolerance(cp, event) == Abs(MomentDiffDays(cp.date, event.date)) <= 30

MatchingIndices(cps, event) == {i \in 1..Len(cps) : WithinTolerance(cps[i], event)}

MinOf(S) == CHOOSE x \in S : \A y \in S : x <= y

\* Faulty variant of AssociatedCP: filter instead of find, every matching element.
FindAll(cps, event) ==
    LET RECURSIVE Collect(_)
        Collect(i) == IF i > Len(cps) THEN <<>>
                      ELSE IF WithinTolerance(cps[i], event)
                           THEN <<cps[i]>> \o Collect(i + 1)
                           ELSE Collect(i + 1)
    IN Collect(1)

\* changePoints.find(cp => ...): the first matching element, <<>> for undefined.
AssociatedCP(cps, event) ==
    LET m == MatchingIndices(cps, event)
    IN IF m = {} THEN <<>> ELSE <<cps[MinOf(m)]>>

\* Faulty variant of HasChangePoint: the timeline's window stops short of the
\* thirtieth day.
HasChangePointStrict(cps, event) ==
    \E i \in 1..Len(cps) : Abs(MomentDiffDays(cps[i].date, event.date)) < 30

\* changePoints.some(cp => ...)
HasChangePoint(cps, event) == \E i \in 1..Len(cps) : WithinTolerance(cps[i], event)

\* Array.prototype.sort with comparator (a, b) => keys(a) - keys(b): stable,
\* ascending in the key; keys[i] is the key of s[i].
SortByKeys(s, keys) ==
    LET n == Len(s)
        Rank(j) == 1 + Cardinality({k \in 1..n :
                        keys[k] < keys[j] \/ (keys[k] = keys[j] /\ k < j)})
    IN [i \in 1..n |-> s[CHOOSE j \in 1..n : Rank(j) = i]]

HasImpact(event) == event.hasImpact

\* x || 0
OrZero(x) == IF Truthy(x) THEN x ELSE 0

\* Faulty variant of ImpactRow: the probability of the first change point of
\* the list instead of the associated one.
ImpactRowFirstCP(event, cps) ==
    LET associatedCP == AssociatedCP(cps, event)
    IN [name |-> event.name, date |-> event.date,
        changePointDetected |-> associatedCP # <<>>,
        changePointProbability |->
            IF associatedCP # <<>> /\ Truthy(cps[1].probability)
            THEN cps[1].probability ELSE NullNum,
        impactMagnitude |-> OrZero(event.pct)]

\* One row of ImpactMetrics.impactData (the .map callback).
ImpactRow(event, cps) ==
    LET associatedCP == AssociatedCP(cps, event)
    IN [name |-> event.name, date |-> event.date,
        changePointDetected |-> associatedCP # <<>>,
        changePointProbability |->
            IF associatedCP # <<>> /\ Truthy(associatedCP[1].probability)
            THEN associatedCP[1].probability ELSE NullNum,
        impactMagnitude |-> OrZero(event.pct)]

\* ImpactMetrics.impactData: filter, map, sort by |impactMagnitude| descending.
ImpactData(evs, cps) ==
    LET kept == SelectSeq(evs, HasImpact)
        rows == [i \in 1..Len(kept) |-> ImpactRow(kept[i], cps)]
    IN SortByKeys(rows, [i \in 1..Len(rows) |-> -Abs(rows[i].impactMagnitude)])

MinNum(a, b) == IF a < b THEN a ELSE b
MaxNum(a, b) == IF a > b THEN a ELSE b

\* One row of EventTimeline's processed list; size5 is 5 * size.
TimelineRow(event, index, cps) ==
    LET magnitude == Abs(OrZero(event.pct))
    IN [id |-> index, date |-> event.date, timestamp |-> event.date,
        name |-> event.name, type |-> event.type,
        impact |-> OrZero(event.pct), magnitude |-> magnitude,
        size5 |-> MinNum(MaxNum(magnitude, 50), 250),
        hasChangePoint |-> HasChangePoint(cps, event)]

Processed(evs, cps) ==
    LET kept == SelectSeq(evs, HasImpact)
        rows == [i \in 1..Len(kept) |-> TimelineRow(kept[i], i - 1, cps)]
    IN SortByKeys(rows, [i \in 1..Len(rows) |-> rows[i].timestamp])

\* The useEffect of EventTimeline, deps [events, changePoints].
TimelineEffect(evs, cps) ==
    timelineData' = IF Len(evs) > 0 THEN Processed(evs, cps) ELSE timelineData

\* ------------------------------------------------------ ChangePointChart
\* Faulty variant of ChartArrays: sort called on the prop itself.
ChartArraysInPlace(cps) ==
    LET sorted == SortByKeys(cps, [i \in 1..Len(cps) |-> -cps[i].probability])
    IN [changePoints |-> sorted, sorted |-> sorted]

\* Faulty variant of ChartArrays: the copy sorted by ascending probability.
ChartArraysAscending(cps) ==
    LET copy == cps
    IN [changePoints |-> cps,
        sorted |-> SortByKeys(copy, [i \in 1..Len(copy) |-> copy[i].probability])]

\* [...changePoints].sort((a, b) => b.probability - a.probability): the spread
\* makes a new array and sort reorders its receiver, which is that new array.
\* The record holds both arrays as they are after the call.
ChartArrays(cps) ==
    LET copy == cps
    IN [changePoints |-> cps,
        sorted |-> SortByKeys(copy, [i \in 1..Len(copy) |-> -copy[i].probability])]

\* .slice(0, 10)
Slice10(s) == SubSeq(s, 1, MinNum(Len(s), 10))

\* The .map callback: the change point's fields, probabilityValue in tenths
\* of a percent, index counted from 1.
ChartRow(cp, index) ==
    [date |-> cp.date, probability |-> cp.probability,
     probabilityValue |-> cp.probability * 10, index |-> index + 1]

ChartData(cps) ==
    LET top == Slice10(ChartArrays(cps).sorted)
    IN [i \in 1..Len(top) |-> ChartRow(top[i], i - 1)]

\* The useEffect of ChangePointChart, deps [changePoints].
ChangePointChartEffect(cps) ==
    cpChartData' = IF Len(cps) > 0 THEN ChartData(cps) ELSE cpChartData

\* The details list: changePoints.slice(0, 5)
Slice5(s) == SubSeq(s, 1, MinNum(Len(s), 5))

\* The bg of a list item's Badge; probabilities are in percent.
BadgeBg(cp) ==
    IF cp.probability > 90 THEN "success"
    ELSE IF cp.probability > 80 THEN "warning"
    ELSE "secondary"

\* The filter of the 'High Confidence' count: cp.probability >= 0.9
HighConfidence(cp) == cp.probability >= 90

\* The 'High Confidence' count of the summary, rendered for a non-empty list.
HighConfidenceCount(cps) == Len(SelectSeq(cps, HighConfidence))

\* EventTimeline: events.filter(...) returns a new array, map and sort work on
\* it; changePoints is only read by some(). The arrays after the effect.
TimelineArrays(evs, cps) ==
    [events |-> evs, changePoints |-> cps, processed |-> Processed(evs, cps)]

\* ImpactMetrics: events.filter(...) returns a new array, map and sort work on
\* it; changePoints is only read by find(). The arrays after the render.
ImpactMetricsArrays(evs, cps) ==
    [events |-> evs, changePoints |-> cps, impactData |-> ImpactData(evs, cps)]

\* The prop arrays after the children computed from them; the chart's effect
\* runs only when changePoints changed.
ChildrenArrays(evs, cps, chartRuns) ==
    LET c == IF chartRuns THEN ChartArrays(cps).changePoints ELSE cps
        t == TimelineArrays(evs, c)
        i == ImpactMetricsArrays(t.events, t.changePoints)
    IN [events |-> i.events, changePoints |-> i.changePoints]

\* The events prop of the children changes.
EventsUpdate ==
    /\ \E evs \in EventLists :
         /\ propsGiven' = [propsGiven EXCEPT !.events = evs]
         /\ events' = ChildrenArrays(evs, changePoints, FALSE).events
         /\ TimelineEffect(evs, changePoints)
    /\ UNCHANGED <<changePoints, volVars, dashVars, chartVars, writes, selVars,
                   pickVars, engineVars>>

\* The changePoints prop of the children changes.
ChangePointsUpdate ==
    /\ \E cps \in CPLists :
         /\ propsGiven' = [propsGiven EXCEPT !.changePoints = cps]
         /\ changePoints' = ChildrenArrays(events, cps, TRUE).changePoints
         /\ TimelineEffect(events, cps)
         /\ ChangePointChartEffect(cps)
    /\ UNCHANGED <<events, volVars, dashVars, pcChartData, writes, selVars,
                   pickVars, engineVars>>

\* Change point lists longer than the ten bars of the chart: the rotations of
\* a base list whose probabilities run 100, 90, .. 50 and repeat, and their
\* prefixes.
LongCPBase ==
    [i \in 1..MaxListLen |-> [date |-> 200 + i, probability |-> 50 + 10 * ((i * 5) % 6)]]

Rotated(s, r) == [i \in 1..Len(s) |-> s[((i + r - 1) % Len(s)) + 1]]

LongCPLists ==
    {SubSeq(Rotated(LongCPBase, r), 1, k) : r \in 0..(MaxListLen - 1), k \in 0..MaxListLen}

\* The changePoints prop of the children changes to a long list.
LongChangePointsUpdate ==
    /\ \E cps \in LongCPLists :
         /\ propsGiven' = [propsGiven EXCEPT !.changePoints = cps]
         /\ changePoints' = ChildrenArrays(events, cps, TRUE).changePoints
         /\ TimelineEffect(events, cps)
         /\ ChangePointChartEffect(cps)
    /\ UNCHANGED <<events, volVars, dashVars, pcChartData, writes, selVars,
                   pickVars, engineVars>>

\* --------------------------------------------------------------- PriceChart
PriceValues == {50, 60, 70}

\* undefined, the value of data.returns?.[index] past the end of the array
NoReturn == <<>>

\* ln(p1 / p0), kept as the pair of prices it is computed from.
LogReturn(p0, p1) == <<p0, p1>>

\* Series Preprocessor: the ReturnObservation sequence, one fewer than prices.
ReturnsOf(prices) ==
    [i \in 1..(Len(prices) - 1) |-> LogReturn(prices[i], prices[i + 1])]

\* The /prices response for a series of observations.
MakePriceData(start, end, obs) ==
    LET prices == [i \in 1..Len(obs) |-> obs[i].price]
    IN [isNull |-> FALSE, start |-> start, end |-> end,
        dates |-> [i \in 1..Len(obs) |-> obs[i].date],
        prices |-> prices, returns |-> ReturnsOf(prices)]

\* One row of PriceChart's formatted list (the .map callback); ma30 and
\* formattedDate are display fields derived from the same index.
PriceRow(data, index) ==
    [date |-> data.dates[index], price |-> data.prices[index],
     returns |-> IF index <= Len(data.returns) THEN data.returns[index] ELSE NoReturn]

Formatted(data) == [i \in 1..Len(data.dates) |-> PriceRow(data, i)]

\* The useEffect of PriceChart, deps [data].
PriceChartEffect(data) ==
    pcChartData' = IF ~data.isNull THEN Formatted(data) ELSE pcChartData

\* ------------------------------------------------------------ Dashboard
NoError == "null"
LoadError == "Failed to load dashboard data. Please try again."

NoPrices == [isNull |-> TRUE, start |-> NullNum, end |-> NullNum,
             dates |-> <<>>, prices |-> <<>>, returns |-> <<>>]

\* '1987-05-20' .. '2022-09-30' is <<0, 200>>
InitialRange == [start |-> 0, end |-> 200]
DateRanges == {InitialRange, [start |-> 110, end |-> 200]}

\* probabilityOptions of EventFilter
MinProbOptions == {50, 80, 90, 95}

AllRequests == {"summary", "eventTypes", "prices", "events", "changePoints", "volatility"}
FilteredRequests == {"prices", "events", "changePoints"}

\* The backend (Flask API), which answers a request from its parameters.
PriceCatalogueSeq ==
    << [date |-> 0, price |-> 50], [date |-> 100, price |-> 70],
       [date |-> 120, price |-> 60], [date |-> 200, price |-> 70] >>

BackendPrices(start, end) ==
    MakePriceData(start, end,
                  SelectSeq(PriceCatalogueSeq, LAMBDA o : start <= o.date /\ o.date <= end))

BackendEvents(type, start, end) ==
    SelectSeq(EventCatalogueSeq,
              LAMBDA e : (type = "all" \/ e.type = type) /\ start <= e.date /\ e.date <= end)

BackendChangePoints(minProb) ==
    SelectSeq(CPCatalogueSeq, LAMBDA cp : cp.probability >= minProb)

BackendSummary == "summary"
BackendEventTypes == <<"conflict", "opec">>
BackendVolatility == [isNull |-> FALSE, current |-> 7, avg |-> 5,
                      hasYearly |-> TRUE, values |-> <<4, 12>>]

\* A call of fetchAllData or fetchFilteredData up to its await: the requests
\* carry the filter state of the render that issued them.
Batch(id, kind) ==
    [id |-> id, kind |-> kind, start |-> dateRange.start, end |-> dateRange.end,
     type |-> selectedEventType, minProb |-> minProbability]

\* Faulty variant of BatchWith: the requests carry the filter state of the
\* render before the update.
BatchWithStale(id, kind, range, type, minProb) ==
    [id |-> id, kind |-> kind, start |-> dateRange.start, end |-> dateRange.end,
     type |-> selectedEventType, minProb |-> minProbability]

\* The batch issued by the render that follows a filter update.
BatchWith(id, kind, range, type, minProb) ==
    [id |-> id, kind |-> kind, start |-> range.start, end |-> range.end,
     type |-> type, minProb |-> minProb]

\* The query parameters of the three requests of fetchFilteredData, as
\* priceAPI.getPrices, eventAPI.getEvents and changePointAPI.getChangePoints
\* build them.
FilteredBatchRequests(b) ==
    [prices |-> [start |-> b.start, end |-> b.end, frequency |-> "daily"],
     events |-> [type |-> b.type, start |-> b.start, end |-> b.end],
     changePoints |-> [min_probability |-> b.minProb]]

\* The children are rendered only when the Dashboard is neither loading nor in error.
ChildrenShown(isLoading, err) == ~isLoading /\ err = NoError

\* Effects of the children that follow a Dashboard state update.
ChildEffects(shown, evs, cps, vd, pd) ==
    /\ IF shown THEN TimelineEffect(evs, cps) ELSE UNCHANGED timelineData
    /\ IF shown THEN ChangePointChartEffect(cps) ELSE UNCHANGED cpChartData
    /\ IF shown THEN PriceChartEffect(pd) ELSE UNCHANGED pcChartData
    /\ IF shown
       THEN VolatilityEffect(vd)
       ELSE /\ volatilityData' = vd
            /\ UNCHANGED <<vcChartData, volatilityRegime>>

\* The state fields of the Dashboard that hold responses.
StateFields == {"summary", "eventTypes", "priceData", "events", "changePoints",
                "volatilityData"}

NoWrites == [f \in StateFields |-> [last |-> 0, byAll |-> FALSE]]

\* Faulty variant of WrittenBy: fetchFilteredData leaves out setChangePoints.
WrittenByFilteredPartial(kind) ==
    IF kind = "all" THEN StateFields ELSE {"priceData", "events"}

\* Faulty variant of WrittenBy: fetchAllData leaves out setVolatilityData.
WrittenByAllPartial(kind) ==
    IF kind = "all" THEN StateFields \ {"volatilityData"}
    ELSE {"priceData", "events", "changePoints"}

\* The state fields a fulfilled batch writes after its await: the six setters
\* of fetchAllData, the three of fetchFilteredData. React 18 applies the
\* setters called in one continuation in one render.
WrittenBy(kind) ==
    IF kind = "all" THEN StateFields ELSE {"priceData", "events", "changePoints"}

\* The history of writes after batch b wrote the fields w.
Written(ws, b, w) ==
    [f \in StateFields |->
        IF f \in w THEN [last |-> b.id, byAll |-> ws[f].byAll \/ b.kind = "all"]
        ELSE ws[f]]

\* Faulty variant of MountEffectDue: an effect without a dependency list.
MountEffectDueAlways == TRUE

\* useEffect(() => {fetchAllData()}, []): the effect runs once, on mount.
MountEffectDue == ~mounted

\* Both mount effects of the Dashboard: fetchAllData() and fetchFilteredData()
\* run up to their await.
Mount ==
    /\ MountEffectDue
    /\ mounted' = TRUE
    /\ loading' = TRUE
    /\ error' = NoError
    /\ inflight' = inflight \cup {Batch(nextId, "all"), Batch(nextId + 1, "filtered")}
    /\ nextId' = nextId + 2
    /\ UNCHANGED <<priceData, summary, eventTypes, dateRange, selectedEventType,
                   minProbability, pickerMounted, failedBatches, changes,
                   volVars, corrVars, dataVars, chartVars, uiVars, engineVars>>

\* fetchAllData after its await, all six requests fulfilled.
FetchAllDataSucceeds ==
    \E b \in inflight :
        /\ b.kind = "all"
        /\ inflight' = inflight \ {b}
        /\ summary' = IF "summary" \in WrittenBy(b.kind) THEN BackendSummary ELSE summary
        /\ eventTypes' = IF "eventTypes" \in WrittenBy(b.kind)
                         THEN BackendEventTypes ELSE eventTypes
        /\ priceData' = IF "priceData" \in WrittenBy(b.kind)
                        THEN BackendPrices(b.start, b.end) ELSE priceData
        /\ events' = IF "events" \in WrittenBy(b.kind)
                     THEN BackendEvents(b.type, b.start, b.end) ELSE events
        /\ changePoints' = IF "changePoints" \in WrittenBy(b.kind)
                           THEN BackendChangePoints(b.minProb) ELSE changePoints
        /\ loading' = FALSE
        /\ propsGiven' = [events |-> events', changePoints |-> changePoints']
        /\ writes' = Written(writes, b, WrittenBy(b.kind))
        /\ ChildEffects(ChildrenShown(FALSE, error), events', changePoints',
                        IF "volatilityData" \in WrittenBy(b.kind)
                        THEN BackendVolatility ELSE volatilityData,
                        priceData')
        /\ UNCHANGED <<error, dateRange, selectedEventType, minProbability, mounted,
                       pickerMounted, nextId, failedBatches, changes,
                       selVars, pickVars, engineVars>>

\* fetchAllData after its await, Promise.all rejected by request r.
FetchAllDataFails ==
    \E b \in inflight, r \in AllRequests :
        /\ b.kind = "all"
        /\ inflight' = inflight \ {b}
        /\ error' = LoadError
        /\ loading' = FALSE
        /\ failedBatches' = failedBatches \cup {b.kind}
        /\ UNCHANGED <<priceData, summary, eventTypes, dateRange, selectedEventType,
                       minProbability, mounted, pickerMounted, nextId, changes,
                       volVars, corrVars, dataVars, chartVars, uiVars, engineVars>>

\* fetchFilteredData after its await, all three requests fulfilled.
FetchFilteredDataSucceeds ==
    \E b \in inflight :
        /\ b.kind = "filtered"
        /\ inflight' = inflight \ {b}
        /\ priceData' = IF "priceData" \in WrittenBy(b.kind)
                        THEN BackendPrices(b.start, b.end) ELSE priceData
        /\ events' = IF "events" \in WrittenBy(b.kind)
                     THEN BackendEvents(b.type, b.start, b.end) ELSE events
        /\ changePoints' = IF "changePoints" \in WrittenBy(b.kind)
                           THEN BackendChangePoints(b.minProb) ELSE changePoints
        /\ writes' = Written(writes, b, WrittenBy(b.kind))
        /\ propsGiven' = [events |-> events', changePoints |-> changePoints']
        /\ ChildEffects(ChildrenShown(loading, error), events', changePoints',
                        volatilityData, priceData')
        /\ UNCHANGED <<loading, error, summary, eventTypes, dateRange,
                       selectedEventType, minProbability, mounted, pickerMounted,
                       nextId, failedBatches, changes,
                       selVars, pickVars, engineVars>>

\* fetchFilteredData after its await, Promise.all rejected by request r: the
\* catch block only logs.
FetchFilteredDataFails ==
    \E b \in inflight, r \in FilteredRequests :
        /\ b.kind = "filtered"
        /\ inflight' = inflight \ {b}
        /\ failedBatches' = failedBatches \cup {b.kind}
        /\ UNCHANGED <<loading, error, priceData, summary, eventTypes, dateRange,
                       selectedEventType, minProbability, mounted, pickerMounted,
                       nextId, changes, volVars, corrVars, dataVars, chartVars,
                       uiVars, engineVars>>

\* A filter state update followed by the filter effect (fetchFilteredData).
FilterChange(range, type, minProb) ==
    /\ dateRange' = range
    /\ selectedEventType' = type
    /\ minProbability' = minProb
    /\ inflight' = inflight \cup {BatchWith(nextId, "filtered", range, type, minProb)}
    /\ nextId' = nextId + 1
    /\ UNCHANGED <<loading, error, priceData, summary, eventTypes, mounted,
                   failedBatches, volVars, corrVars, dataVars, chartVars, uiVars,
                   engineVars>>

\* The mount effect of DateRangePicker: handleApply() with the initial dates.
DateRangePickerMount ==
    /\ mounted /\ ChildrenShown(loading, error) /\ ~pickerMounted
    /\ pickerMounted' = TRUE
    /\ FilterChange(dateRange, selectedEventType, minProbability)
    /\ UNCHANGED changes

UserCanAct ==
    mounted /\ ChildrenShown(loading, error) /\ pickerMounted /\ changes < MaxChanges

\* handleDateRangeChange: setDateRange stores a new object, so the filter
\* effect runs even when the dates are the same.
HandleDateRangeChange ==
    /\ UserCanAct
    /\ \E range \in DateRanges : FilterChange(range, selectedEventType, minProbability)
    /\ changes' = changes + 1
    /\ UNCHANGED pickerMounted

\* handleEventTypeChange, from the options EventFilter builds from eventTypes.
HandleEventTypeChange ==
    /\ UserCanAct
    /\ \E type \in {"all"} \cup Range(eventTypes) :
         /\ type # selectedEventType
         /\ FilterChange(dateRange, type, minProbability)
    /\ changes' = changes + 1
    /\ UNCHANGED pickerMounted

\* onProbabilityChange = setMinProbability
SetMinProbability ==
    /\ UserCanAct
    /\ \E p \in MinProbOptions :
         /\ p # minProbability
         /\ FilterChange(dateRange, selectedEventType, p)
    /\ changes' = changes + 1
    /\ UNCHANGED pickerMounted

\* The data prop of PriceChart changes.
PriceInputs ==
    {NoPrices} \cup
    {MakePriceData(0, 200, [i \in 1..Len(ps) |-> [date |-> 10 * i, price |-> ps[i]]]) :
        ps \in SeqsUpTo(PriceValues, MaxPrices)}

PriceDataUpdate ==
    /\ \E data \in PriceInputs :
         /\ priceData' = data
         /\ PriceChartEffect(data)
    /\ UNCHANGED <<loading, error, summary, eventTypes, dateRange, selectedEventType,
                   minProbability, mounted, pickerMounted, inflight, nextId,
                   failedBatches, changes, volVars, corrVars, dataVars, cpChartData,
                   uiVars, engineVars>>

\* ------------------------------------------------------------ selection
\* An item handed to a click callback: an event, a change point or a row made
\* from one. Change points and their rows carry no name.
NoItem == [date |-> NullNum, name |-> "null"]
ItemOfEvent(e) == [date |-> e.date, name |-> e.name]
ItemOfCP(cp) == [date |-> cp.date, name |-> "undefined"]

NoSelection == [view |-> "none", item |-> NoItem]

\* Event types for which the code registers a window listener: none.
WindowListeners == {}

\* Dashboard.handleEventHighlight
HandleEventHighlight(item) == highlightedEvent' = item

SelectionFrame ==
    UNCHANGED <<volVars, corrVars, dataVars, dashVars, chartVars, propsGiven,
                writes, pickVars, engineVars>>

\* PriceChart: ReferenceDot onClick={() => onEventClick(event)}
PriceChartDotClick ==
    /\ mounted /\ ChildrenShown(loading, error)
    /\ \E i \in 1..Len(events) :
         /\ HandleEventHighlight(ItemOfEvent(events[i]))
         /\ lastSelected' = [view |-> "priceChart", item |-> ItemOfEvent(events[i])]
    /\ UNCHANGED <<selectedCP, selectedEvent>>
    /\ SelectionFrame

\* ChangePointChart.handleBarClick from a bar of chartData
ChartBarClick ==
    /\ mounted /\ ChildrenShown(loading, error)
    /\ \E i \in 1..Len(cpChartData) :
         /\ selectedCP' = ItemOfCP(cpChartData[i])
         /\ HandleEventHighlight(ItemOfCP(cpChartData[i]))
         /\ lastSelected' = [view |-> "changePointBar", item |-> ItemOfCP(cpChartData[i])]
    /\ UNCHANGED selectedEvent
    /\ SelectionFrame

\* ChangePointChart.handleBarClick from an item of changePoints.slice(0, 5)
ChartListItemClick ==
    /\ mounted /\ ChildrenShown(loading, error)
    /\ \E i \in 1..MinNum(Len(changePoints), 5) :
         /\ selectedCP' = ItemOfCP(changePoints[i])
         /\ HandleEventHighlight(ItemOfCP(changePoints[i]))
         /\ lastSelected' = [view |-> "changePointList", item |-> ItemOfCP(changePoints[i])]
    /\ UNCHANGED selectedEvent
    /\ SelectionFrame

\* EventTimeline.handleScatterClick from a bubble of timelineData
TimelineBubbleClick ==
    /\ mounted /\ ChildrenShown(loading, error)
    /\ \E i \in 1..Len(timelineData) :
         /\ selectedEvent' = ItemOfEvent(timelineData[i])
         /\ HandleEventHighlight(ItemOfEvent(timelineData[i]))
         /\ lastSelected' = [view |-> "timeline", item |-> ItemOfEvent(timelineData[i])]
    /\ UNCHANGED selectedCP
    /\ SelectionFrame

\* ImpactMetrics row onClick: window.dispatchEvent(new CustomEvent(
\* 'highlightEvent', {detail: event})); the Dashboard passes the table no
\* callback, so the event reaches only the registered window listeners.
ImpactRowClick ==
    /\ mounted /\ ChildrenShown(loading, error)
    /\ \E i \in 1..Len(ImpactData(events, changePoints)) :
         LET item == ItemOfEvent(ImpactData(events, changePoints)[i])
         IN /\ IF "highlightEvent" \in WindowListeners
               THEN HandleEventHighlight(item)
               ELSE UNCHANGED highlightedEvent
            /\ lastSelected' = [view |-> "impactTable", item |-> item]
    /\ UNCHANGED <<selectedCP, selectedEvent>>
    /\ SelectionFrame

\* ------------------------------------------------------- DateRangePicker
\* A Date is a calendar day with a time of day t (0 is midnight); the
\* 'YYYY-MM-DD' string of a date is the calendar day alone.
MakeDate(y, m, d, t) == [y |-> y, m |-> m, d |-> d, t |-> t]
NoDate == MakeDate(0, 0, 0, 0)

\* moment(date).format('YYYY-MM-DD')
FormatDate(date) == [y |-> date.y, m |-> date.m, d |-> date.d]

\* moment('YYYY-MM-DD').toDate(): local midnight of that day
ParseDate(str) == MakeDate(str.y, str.m, str.d, 0)

InitialStart == [y |-> 1987, m |-> 5, d |-> 20]
InitialEnd == [y |-> 2022, m |-> 9, d |-> 30]

IsLeapYear(y) == (y % 4 = 0 /\ y % 100 # 0) \/ y % 400 = 0

DaysInMonth(y, m) ==
    IF m = 2 THEN (IF IsLeapYear(y) THEN 29 ELSE 28)
    ELSE IF m \in {4, 6, 9, 11} THEN 30 ELSE 31

\* Date.prototype.setFullYear(y): a day past the end of the month rolls over
\* into the next month.
SetFullYear(date, y) ==
    IF date.d > DaysInMonth(y, date.m)
    THEN MakeDate(y, date.m + 1, date.d - DaysInMonth(y, date.m), date.t)
    ELSE MakeDate(y, date.m, date.d, date.t)

DayLE(a, b) ==
    \/ a.y < b.y
    \/ a.y = b.y /\ a.m < b.m
    \/ a.y = b.y /\ a.m = b.m /\ a.d <= b.d

\* Values of new Date() at a click, and days a user picks in a calendar.
Nows == {MakeDate(2026, 11, 5, 1), MakeDate(2024, 2, 29, 1)}
PickDates == {MakeDate(2000, 1, 1, 0), MakeDate(2023, 6, 15, 0)}

Presets == {"1Y", "5Y", "10Y", "ALL"}

\* The switch of handlePresetRange, for the presets that count years.
PresetYears(preset) ==
    IF preset = "1Y" THEN 1 ELSE IF preset = "5Y" THEN 5 ELSE 10

\* start of handlePresetRange
PresetStart(preset, now) ==
    IF preset = "ALL" THEN ParseDate(InitialStart)
    ELSE SetFullYear(now, now.y - PresetYears(preset))

NoRange == [start |-> FormatDate(NoDate), end |-> FormatDate(NoDate)]

\* onDateRangeChange({start, end})
Emit(start, end) ==
    emitted' = [n |-> emitted.n + 1,
                last |-> [start |-> FormatDate(start), end |-> FormatDate(end)]]

PickerFrame ==
    UNCHANGED <<volVars, corrVars, dataVars, loading, error, priceData, summary,
                eventTypes, dateRange, selectedEventType, minProbability, mounted,
                inflight, nextId, failedBatches, changes, chartVars, propsGiven,
                writes, selVars, engineVars>>

\* The mount effect of DateRangePicker: handleApply() with the initial dates.
PickerMountEffect ==
    /\ ~pickerMounted
    /\ pickerMounted' = TRUE
    /\ Emit(startDate, endDate)
    /\ lastClick' = [action |-> "mount", now |-> NoDate]
    /\ UNCHANGED <<startDate, endDate>>
    /\ PickerFrame

\* onChange of the start picker: setStartDate(date)
EditStartDate ==
    /\ pickerMounted
    /\ \E date \in PickDates : startDate' = date
    /\ lastClick' = [action |-> "editStart", now |-> NoDate]
    /\ UNCHANGED <<endDate, emitted, pickerMounted>>
    /\ PickerFrame

\* onChange of the end picker: setEndDate(date); minDate={startDate} offers
\* no day before the start date.
EditEndDate ==
    /\ pickerMounted
    /\ \E date \in PickDates :
         /\ DayLE(startDate, date)
         /\ endDate' = date
    /\ lastClick' = [action |-> "editEnd", now |-> NoDate]
    /\ UNCHANGED <<startDate, emitted, pickerMounted>>
    /\ PickerFrame

\* handleApply from the Apply button
HandleApply ==
    /\ pickerMounted /\ emitted.n < MaxEmits
    /\ Emit(startDate, endDate)
    /\ lastClick' = [action |-> "apply", now |-> NoDate]
    /\ UNCHANGED <<startDate, endDate, pickerMounted>>
    /\ PickerFrame

\* handlePresetRange(preset); both new Date() calls read the same day.
HandlePresetRange ==
    /\ pickerMounted /\ emitted.n < MaxEmits
    /\ \E preset \in Presets, now \in Nows :
         /\ startDate' = PresetStart(preset, now)
         /\ endDate' = now
         /\ Emit(PresetStart(preset, now), now)
         /\ lastClick' = [action |-> preset, now |-> now]
    /\ UNCHANGED pickerMounted
    /\ PickerFrame

\* --------------------------------------------------- Posterior Summarizer
\* Probabilities in percent; the threshold is exclusive.
Threshold == 50
MinSeparation == 5
PosteriorValues == {50, 60, 90}
Posteriors == SeqsUpTo(PosteriorValues, MaxIndices) \ {<<>>}

AboveThreshold(post) == {i \in 1..Len(post) : post[i] > Threshold}

\* The run of adjacent above-threshold indices that holds index i.
RunOf(post, i) ==
    {j \in AboveThreshold(post) :
        \A k \in MinNum(i, j)..MaxNum(i, j) : k \in AboveThreshold(post)}

\* The best of a set of indices: highest probability, the earliest on a tie.
Best(post, S) ==
    CHOOSE i \in S : \A j \in S : post[i] > post[j] \/ (post[i] = post[j] /\ i <= j)

\* Faulty variant of ModeOf: the first index of the run.
ModeOfFirst(post, run) == MinOf(run)

\* The mode of a run.
ModeOf(post, run) == Best(post, run)

\* Non-maximum suppression: candidates are taken best first, and one is kept
\* when it is at least MinSeparation from every index kept before it.
RECURSIVE Suppress(_, _, _)
Suppress(post, cands, kept) ==
    IF cands = {} THEN kept
    ELSE LET b == Best(post, cands)
         IN Suppress(post, cands \ {b},
                     IF \A k \in kept : Abs(k - b) >= MinSeparation
                     THEN kept \cup {b} ELSE kept)

\* The emitted ChangePoint sequence, chronological.
Summarizer(post) ==
    LET modes == {ModeOf(post, RunOf(post, i)) : i \in AboveThreshold(post)}
        kept == Suppress(post, modes, {})
    IN [k \in 1..Cardinality(kept) |->
          LET i == CHOOSE i \in kept : Cardinality({j \in kept : j < i}) = k - 1
          IN [index |-> i, probability |-> post[i]]]

\* The Inference Model hands its probability vector to the Summarizer, once
\* per run.
PosteriorReady ==
    /\ posterior = <<>>
    /\ \E post \in Posteriors : posterior' = post
    /\ UNCHANGED <<cpOut, summarized, impVars, chainVars, inferVars, volVars, corrVars, dataVars,
                   dashVars, chartVars, uiVars>>

Summarize ==
    /\ posterior # <<>>
    /\ cpOut' = Summarizer(posterior)
    /\ summarized' = TRUE
    /\ UNCHANGED <<posterior, impVars, chainVars, inferVars, volVars, corrVars, dataVars,
                   dashVars, chartVars, uiVars>>

\* ------------------------------------------------------- Impact Quantifier
DefaultWindow == 30
WindowLengths == {1, 2, DefaultWindow}
SeriesValues == {50, 70}

NoImpactInput == [prices |-> <<>>, anchor |-> 0, window |-> 0]

\* A price series the Preprocessor accepts (two observations or more), an
\* anchor on one of its days and a window length.
ImpactInputs ==
    {input \in [prices : {x \in SeqsUpTo(SeriesValues, MaxSeries) : Len(x) >= 2},
                anchor : 1..MaxSeries, window : WindowLengths] :
        input.anchor <= Len(input.prices)}

RECURSIVE SumOver(_, _)
SumOver(prices, S) ==
    IF S = {} THEN 0
    ELSE LET i == MinOf(S) IN prices[i] + SumOver(prices, S \ {i})

\* The part of lo..hi that the series has.
Clip(prices, lo, hi) == {i \in lo..hi : 1 <= i /\ i <= Len(prices)}

\* The summary of a window as a fraction sum / count; a window with no
\* observation left takes the nearest available price, the anchor's.
WindowSummary(prices, S, anchor) ==
    IF S = {} THEN [sum |-> prices[anchor], count |-> 1]
    ELSE [sum |-> SumOver(prices, S), count |-> Cardinality(S)]

\* Faulty variant of QuantifyImpact: no record for a clipped window.
QuantifyImpactDropsClipped(input) ==
    LET n == Len(input.prices)
        a == input.anchor
        w == input.window
        before == WindowSummary(input.prices, Clip(input.prices, a - w, a - 1), a)
        after == WindowSummary(input.prices, Clip(input.prices, a + 1, a + w), a)
    IN IF a - w < 1 \/ a + w > n THEN <<>>
       ELSE << [anchor |-> a, window_length_days |-> w,
                partial_window |-> FALSE,
                percent_change |->
                    [isNull |-> FALSE,
                     value |-> (after.sum * before.count * 100)
                               \div (before.sum * after.count) - 100]] >>

\* The ImpactRecord of an anchor; percent_change is
\* (price_after / price_before - 1) * 100, rounded down.
QuantifyImpact(input) ==
    LET n == Len(input.prices)
        a == input.anchor
        w == input.window
        before == WindowSummary(input.prices, Clip(input.prices, a - w, a - 1), a)
        after == WindowSummary(input.prices, Clip(input.prices, a + 1, a + w), a)
    IN << [anchor |-> a, window_length_days |-> w,
           partial_window |-> (a - w < 1 \/ a + w > n),
           percent_change |->
               [isNull |-> FALSE,
                value |-> (after.sum * before.count * 100)
                          \div (before.sum * after.count) - 100]] >>

ImpactRequested ==
    /\ impactInput = NoImpactInput
    /\ \E input \in ImpactInputs : impactInput' = input
    /\ UNCHANGED <<impactRecord, quantified, summVars, chainVars, inferVars, volVars, corrVars, dataVars,
                   dashVars, chartVars, uiVars>>

Quantify ==
    /\ impactInput # NoImpactInput
    /\ impactRecord' = QuantifyImpact(impactInput)
    /\ quantified' = TRUE
    /\ UNCHANGED <<impactInput, summVars, chainVars, inferVars, volVars, corrVars, dataVars,
                   dashVars, chartVars, uiVars>>

\* ------------------------------------------------------- sampling chains
Chains == 1..MaxChains
Draws == {0, 1}

ChainFrame ==
    UNCHANGED <<summVars, impVars, inferVars, volVars, corrVars, dataVars, dashVars,
                chartVars, uiVars>>

\* Faulty variant of BarrierOpen: one finished chain is enough.
BarrierOpenAny(states) == \E c \in Chains : states[c] # "running"

\* The synchronization barrier: every chain has completed or timed out.
BarrierOpen(states) == \A c \in Chains : states[c] # "running"

\* A running chain draws a sample from its own random stream.
ChainDraw ==
    /\ \E c \in Chains, x \in Draws :
         /\ chainState[c] = "running"
         /\ Len(chainSamples[c]) < MaxSamples
         /\ chainSamples' = [chainSamples EXCEPT ![c] = Append(@, x)]
    /\ UNCHANGED <<chainState, merged, mergedSamples>>
    /\ ChainFrame

ChainCompletes ==
    /\ \E c \in Chains :
         /\ chainState[c] = "running"
         /\ chainState' = [chainState EXCEPT ![c] = "completed"]
    /\ UNCHANGED <<chainSamples, merged, mergedSamples>>
    /\ ChainFrame

ChainTimesOut ==
    /\ \E c \in Chains :
         /\ chainState[c] = "running"
         /\ chainState' = [chainState EXCEPT ![c] = "timedOut"]
    /\ UNCHANGED <<chainSamples, merged, mergedSamples>>
    /\ ChainFrame

RECURSIVE Concat(_, _)
Concat(samples, c) ==
    IF c > MaxChains THEN <<>> ELSE samples[c] \o Concat(samples, c + 1)

\* The convergence-check step merges the sample sets.
MergeAtBarrier ==
    /\ ~merged
    /\ BarrierOpen(chainState)
    /\ merged' = TRUE
    /\ mergedSamples' = Concat(chainSamples, 1)
    /\ UNCHANGED <<chainState, chainSamples>>
    /\ ChainFrame

\* ------------------------------------------------ Inference Model budget
NoBudget == [iterations |-> 0, wallClock |-> 0]
Budgets == [iterations : 1..MaxBudget, wallClock : 1..MaxBudget]

NoResult == [returned |-> FALSE, tag |-> "none"]

InferFrame ==
    UNCHANGED <<summVars, impVars, chainVars, volVars, corrVars, dataVars, dashVars,
                chartVars, uiVars>>

\* The iteration-count or the wall-clock budget is used up.
BudgetSpent(budget, iters, time) ==
    iters >= budget.iterations \/ time >= budget.wallClock

\* Faulty variant of ResultTag: every result is passed off as converged.
ResultTagConverged(spent) == "converged"

\* The tag of a returned result.
ResultTag(spent) == IF spent THEN "unconverged" ELSE "converged"

\* The inference stage starts with the budget of its caller.
InferenceStarts ==
    /\ inferBudget = NoBudget
    /\ \E budget \in Budgets : inferBudget' = budget
    /\ UNCHANGED <<iterations, elapsed, inferResult>>
    /\ InferFrame

\* One sampling iteration, while the budget lasts.
SamplingIteration ==
    /\ inferBudget # NoBudget /\ ~inferResult.returned
    /\ ~BudgetSpent(inferBudget, iterations, elapsed)
    /\ iterations' = iterations + 1
    /\ UNCHANGED <<inferBudget, elapsed, inferResult>>
    /\ InferFrame

\* Wall-clock time passes while the stage runs.
ClockAdvances ==
    /\ inferBudget # NoBudget /\ ~inferResult.returned
    /\ elapsed < inferBudget.wallClock
    /\ elapsed' = elapsed + 1
    /\ UNCHANGED <<inferBudget, iterations, inferResult>>
    /\ InferFrame

\* The diagnostics pass within the budget: the result is returned.
ReturnConverged ==
    /\ inferBudget # NoBudget /\ ~inferResult.returned
    /\ iterations >= 1
    /\ ~BudgetSpent(inferBudget, iterations, elapsed)
    /\ inferResult' = [returned |-> TRUE, tag |-> ResultTag(FALSE)]
    /\ UNCHANGED <<inferBudget, iterations, elapsed>>
    /\ InferFrame

\* The budget is used up: the best-available result is returned.
ReturnOnBudget ==
    /\ inferBudget # NoBudget /\ ~inferResult.returned
    /\ BudgetSpent(inferBudget, iterations, elapsed)
    /\ inferResult' = [returned |-> TRUE, tag |-> ResultTag(TRUE)]
    /\ UNCHANGED <<inferBudget, iterations, elapsed>>
    /\ InferFrame

\* -------------------------------------------------------- specifications
InitVol ==
    /\ volatilityData = NoVolatilityData
    /\ vcChartData = <<>>
    /\ volatilityRegime = NoRegime

InitData ==
    /\ events = <<>>
    /\ changePoints = <<>>
    /\ timelineData = <<>>

InitDash ==
    /\ loading = TRUE
    /\ error = NoError
    /\ priceData = NoPrices
    /\ summary = "null"
    /\ eventTypes = <<>>
    /\ dateRange = InitialRange
    /\ selectedEventType = "all"
    /\ minProbability = 80
    /\ mounted = FALSE
    /\ pickerMounted = FALSE
    /\ inflight = {}
    /\ nextId = 1
    /\ failedBatches = {}
    /\ changes = 0

InitCharts ==
    /\ cpChartData = <<>>
    /\ pcChartData = <<>>
    /\ propsGiven = [events |-> <<>>, changePoints |-> <<>>]
    /\ writes = NoWrites

InitSelection ==
    /\ highlightedEvent = NoItem
    /\ selectedCP = NoItem
    /\ selectedEvent = NoItem
    /\ lastSelected = NoSelection

InitPicker ==
    /\ startDate = ParseDate(InitialStart)
    /\ endDate = ParseDate(InitialEnd)
    /\ emitted = [n |-> 0, last |-> NoRange]
    /\ lastClick = [action |-> "none", now |-> NoDate]

InitEngine ==
    /\ posterior = <<>>
    /\ cpOut = <<>>
    /\ summarized = FALSE
    /\ impactInput = NoImpactInput
    /\ impactRecord = <<>>
    /\ quantified = FALSE
    /\ chainState = [c \in Chains |-> "running"]
    /\ chainSamples = [c \in Chains |-> <<>>]
    /\ merged = FALSE
    /\ mergedSamples = <<>>
    /\ inferBudget = NoBudget
    /\ iterations = 0
    /\ elapsed = 0
    /\ inferResult = NoResult

Init == InitVol /\ InitData /\ InitDash /\ InitCharts /\ InitSelection
        /\ InitPicker /\ InitEngine

\* VolatilityChart under updates of its prop.
NextVol == VolatilityDataUpdate
SpecVol == Init /\ [][NextVol]_vars

\* ImpactMetrics and EventTimeline under updates of their props.
NextCorr == EventsUpdate \/ ChangePointsUpdate
SpecCorr == Init /\ [][NextCorr]_vars

\* The Dashboard with its requests and its children.
NextDash ==
    \/ Mount
    \/ FetchAllDataSucceeds
    \/ FetchAllDataFails
    \/ FetchFilteredDataSucceeds
    \/ FetchFilteredDataFails
    \/ DateRangePickerMount
    \/ HandleDateRangeChange
    \/ HandleEventTypeChange
    \/ SetMinProbability
SpecDash == Init /\ [][NextDash]_vars

\* The Dashboard where the initial batch settles: every request of it ends by
\* a response, an error or the 30 s timeout of the axios instance.
SpecDashFair ==
    SpecDash /\ WF_vars(FetchAllDataSucceeds \/ FetchAllDataFails)

\* ChangePointChart under updates of its prop with long lists.
NextChart == LongChangePointsUpdate
SpecChart == Init /\ [][NextChart]_vars

\* PriceChart under updates of its prop.
NextPrice == PriceDataUpdate
SpecPrice == Init /\ [][NextPrice]_vars

\* The loaded Dashboard under clicks in its views.
NextSelect ==
    \/ Mount
    \/ FetchAllDataSucceeds
    \/ FetchFilteredDataSucceeds
    \/ PriceChartDotClick
    \/ ChartBarClick
    \/ ChartListItemClick
    \/ TimelineBubbleClick
    \/ ImpactRowClick
SpecSelect == Init /\ [][NextSelect]_vars

\* DateRangePicker under the user's actions.
NextPick ==
    \/ PickerMountEffect
    \/ EditStartDate
    \/ EditEndDate
    \/ HandleApply
    \/ HandlePresetRange
SpecPick == Init /\ [][NextPick]_vars

\* One run of the Posterior Summarizer.
NextSumm == PosteriorReady \/ Summarize
SpecSumm == Init /\ [][NextSumm]_vars

\* One run of the Impact Quantifier.
NextImpact == ImpactRequested \/ Quantify
SpecImpact == Init /\ [][NextImpact]_vars

\* The sampling chains of one inference run.
NextChains == ChainDraw \/ ChainCompletes \/ ChainTimesOut \/ MergeAtBarrier
SpecChains == Init /\ [][NextChains]_vars

\* One run of the inference stage under its budget. The stage is a running
\* computation that tests its budget in every iteration, so a step that stays
\* possible is taken.
NextInfer ==
    \/ InferenceStarts
    \/ SamplingIteration
    \/ ClockAdvances
    \/ ReturnConverged
    \/ ReturnOnBudget
SpecInfer == Init /\ [][NextInfer]_vars /\ WF_vars(NextInfer)

Next == NextVol \/ NextCorr \/ NextDash \/ NextPrice \/ NextSelect \/ NextPick
        \/ NextSumm \/ NextImpact \/ NextChains \/ NextInfer
        \/ NextChart
Spec == Init /\ [][Next]_vars

\* ================================================================ claims
Labels == {"Low", "Normal", "High"}

\* The label the classifier contract gives value v against baseline b > 0:
\* High above 1.2 b, Low below 0.8 b, Normal from 0.8 b to 1.2 b inclusive.
ThresholdLabel(v, b) ==
    IF 5 * v > 6 * b THEN "High" ELSE IF 5 * v < 4 * b THEN "Low" ELSE "Normal"

NearestDistance(cps, d) ==
    MinOf({Abs(cps[j].date - d) : j \in 1..Len(cps)})

InWindow(cp, d) == Abs(cp.date - d) <= 30

\* C2: an event is marked as having a change point (hasChangePoint in the
\* timeline, changePointDetected in the impact table) iff some change point
\* is at most 30 days from the event date, before or after it.
C2_MatchedIffWithin30 ==
    /\ LET rows == ImpactData(events, changePoints)
       IN \A i \in 1..Len(rows) :
            rows[i].changePointDetected <=>
                \E j \in 1..Len(changePoints) : InWindow(changePoints[j], rows[i].date)
    /\ Len(events) > 0 =>
         \A i \in 1..Len(timelineData) :
            timelineData[i].hasChangePoint <=>
                \E j \in 1..Len(changePoints) : InWindow(changePoints[j], timelineData[i].date)

\* One event exactly 30 days from its nearest change point, marked in both
\* views, and one exactly 31 days from its nearest, marked in neither.
C2_Witness ==
    LET rows == ImpactData(events, changePoints)
    IN /\ changePoints # <<>>
       /\ \E i \in 1..Len(rows), k \in 1..Len(timelineData) :
            /\ rows[i].date = timelineData[k].date
            /\ NearestDistance(changePoints, rows[i].date) = 30
            /\ rows[i].changePointDetected /\ timelineData[k].hasChangePoint
       /\ \E i \in 1..Len(rows), k \in 1..Len(timelineData) :
            /\ rows[i].date = timelineData[k].date
            /\ NearestDistance(changePoints, rows[i].date) = 31
            /\ ~rows[i].changePointDetected /\ ~timelineData[k].hasChangePoint

\* C3: the change point whose probability the impact table reports for an
\* event is the one with the smallest absolute day offset from the event.
C3_NearestIsAssociated ==
    LET rows == ImpactData(events, changePoints)
    IN \A i \in 1..Len(rows) :
         rows[i].changePointDetected =>
            \E j \in 1..Len(changePoints) :
               /\ changePoints[j].probability = rows[i].changePointProbability
               /\ Abs(changePoints[j].date - rows[i].date)
                    = NearestDistance(changePoints, rows[i].date)

\* C4: when two change points in the window are equidistant from an event and
\* none is nearer, the change point reported for the event is the earlier one.
C4_TieEarlierWins ==
    LET rows == ImpactData(events, changePoints)
    IN \A i \in 1..Len(rows) :
         \A j, k \in 1..Len(changePoints) :
            LET a == changePoints[j]
                b == changePoints[k]
            IN (/\ InWindow(a, rows[i].date) /\ InWindow(b, rows[i].date)
                /\ a.date < b.date
                /\ Abs(a.date - rows[i].date) = Abs(b.date - rows[i].date)
                /\ Abs(a.date - rows[i].date) = NearestDistance(changePoints, rows[i].date))
               => rows[i].changePointProbability = a.probability

EventsWithImpact == {events[i] : i \in {k \in 1..Len(events) : events[k].hasImpact}}

\* C5: every event is associated with at most one change point, which is one
\* of the change points of the list; a change point may be the associated one
\* of several events.
C5_AtMostOneChangePoint ==
    \A e \in EventsWithImpact :
        LET assoc == AssociatedCP(changePoints, e)
        IN /\ Len(assoc) <= 1
           /\ \A i \in 1..Len(assoc) : assoc[i] \in Range(changePoints)

\* Two events associated with the same change point, with another change
\* point of the list in the window of one of them.
C5_Witness ==
    \E e1, e2 \in EventsWithImpact :
        /\ e1 # e2
        /\ AssociatedCP(changePoints, e1) # <<>>
        /\ AssociatedCP(changePoints, e1) = AssociatedCP(changePoints, e2)
        /\ Cardinality(MatchingIndices(changePoints, e1)) > 1

\* C6: an event with no change point in its window has changePointDetected
\* false and changePointProbability null; when changePointDetected is true the
\* probability reported is that of a change point inside the event's window.
C6_UnmatchedHasNoReference ==
    LET rows == ImpactData(events, changePoints)
    IN \A i \in 1..Len(rows) :
         LET inWindow == {j \in 1..Len(changePoints) :
                             InWindow(changePoints[j], rows[i].date)}
         IN /\ inWindow = {} =>
                 /\ ~rows[i].changePointDetected
                 /\ rows[i].changePointProbability = NullNum
            /\ rows[i].changePointDetected =>
                 \E j \in inWindow :
                    rows[i].changePointProbability = changePoints[j].probability

\* One matched event whose change point is not the first of the list, next to
\* an unmatched event, with a non-empty change point list.
C6_Witness ==
    LET rows == ImpactData(events, changePoints)
    IN /\ changePoints # <<>>
       /\ \E i \in 1..Len(rows) :
            /\ rows[i].changePointDetected
            /\ rows[i].changePointProbability # changePoints[1].probability
       /\ \E i \in 1..Len(rows) :
            /\ ~rows[i].changePointDetected
            /\ rows[i].changePointProbability = NullNum

\* C7: the backend answering every request with change points at or above the
\* requested floor, once no request is in flight (and none has failed) every
\* change point the Dashboard holds is at or above the selected minProbability.
C7_FloorAfterSettle ==
    (mounted /\ inflight = {} /\ failedBatches = {}) =>
        \A i \in 1..Len(changePoints) : changePoints[i].probability >= minProbability

\* C8: the regime VolatilityChart holds is the label of the latest
\* volatilityData's (current, avg); no regime computed from an earlier
\* volatilityData remains held.
C8_RegimeIsLatest ==
    ~volatilityRegime.isNull =>
        /\ ~volatilityData.isNull
        /\ volatilityRegime.current = 100 * volatilityData.current
        /\ volatilityRegime.avg = 100 * volatilityData.avg
        /\ volatilityRegime.regime
             = ThresholdLabel(volatilityData.current, volatilityData.avg)

\* C9: every volatility value supplied with a baseline, 0 included, has
\* exactly one label of Low, Normal, High computed from it, and without a
\* baseline no label is produced.
C9_EveryValueLabelled ==
    LET vd == volatilityData
    IN ~vd.isNull =>
        /\ (vd.current # NullNum /\ vd.avg > 0) =>
             /\ ~volatilityRegime.isNull
             /\ volatilityRegime.current = 100 * vd.current
             /\ volatilityRegime.avg = 100 * vd.avg
             /\ volatilityRegime.regime \in Labels
        /\ (vd.hasYearly /\ vd.avg > 0) =>
             /\ Len(vcChartData) = Len(vd.values)
             /\ \A i \in 1..Len(vcChartData) : vcChartData[i].regime \in Labels
        /\ (vd.hasYearly /\ ~(vd.avg > 0)) =>
             \A i \in 1..Len(vcChartData) : vcChartData[i].regime \notin Labels

\* C10: whenever a request of fetchAllData or of fetchFilteredData has failed,
\* the Dashboard, once no request is in flight, shows the failure: error is
\* not null.
C10_FailureIsReported ==
    (failedBatches # {} /\ inflight = {}) => error # NoError

\* C11: the children treat the events and changePoints arrays they receive as
\* read-only: after the chart's top-10 list, the timeline data and the impact
\* table were computed, each array has the order, length and elements it was
\* given with.
C11_InputsUnchanged ==
    /\ events = propsGiven.events
    /\ changePoints = propsGiven.changePoints

DatesOf(s) == [i \in 1..Len(s) |-> s[i].date]

\* Both the chart and the timeline hold their input in another order.
C11_Witness ==
    /\ Len(changePoints) >= 2
    /\ cpChartData = ChartData(changePoints)
    /\ DatesOf(cpChartData) # DatesOf(changePoints)
    /\ timelineData = Processed(events, changePoints)
    /\ DatesOf(timelineData) # DatesOf(SelectSeq(events, HasImpact))

NamesOf(s) == [i \in 1..Len(s) |-> s[i].name]

Occurrences(s, x) == Cardinality({i \in 1..Len(s) : s[i] = x})

IsPermutation(a, b) ==
    /\ Len(a) = Len(b)
    /\ \A x \in Range(a) \cup Range(b) : Occurrences(a, x) = Occurrences(b, x)

\* C12: the impact table and the timeline data are each a permutation of the
\* events that carry an impact record: every such event appears exactly once
\* in both, and none is dropped.
C12_ImpactEventsOnceEach ==
    LET kept == NamesOf(SelectSeq(events, HasImpact))
    IN /\ IsPermutation(NamesOf(ImpactData(events, changePoints)), kept)
       /\ IsPermutation(NamesOf(timelineData), kept)

\* C13: a step that changes the date range, the event type or the minimum
\* probability issues exactly one request batch, and its prices, events and
\* change point requests carry the new filter values.
C13_FilterChangeIssuesBatch ==
    [][(dateRange' # dateRange \/ selectedEventType' # selectedEventType
            \/ minProbability' # minProbability)
       => \E b \in inflight' :
            /\ inflight' \ inflight = {b}
            /\ FilteredBatchRequests(b) =
                 [prices |-> [start |-> dateRange'.start, end |-> dateRange'.end,
                              frequency |-> "daily"],
                  events |-> [type |-> selectedEventType',
                              start |-> dateRange'.start, end |-> dateRange'.end],
                  changePoints |-> [min_probability |-> minProbability']]]_vars

\* After two changes every filter differs from its initial value and a batch
\* with the current values is in flight.
C13_Witness ==
    /\ selectedEventType = "opec"
    /\ minProbability = 95
    /\ \E b \in inflight :
         /\ b.kind = "filtered"
         /\ b.type = "opec" /\ b.minProb = 95
         /\ b.start = dateRange.start /\ b.end = dateRange.end

\* C14: after an item was selected in a view (a dot of the price chart, a bar
\* or list item of the change point chart, a bubble of the timeline, a row of
\* the impact table), highlightedEvent is that item.
C14_SelectionHighlights ==
    lastSelected.view # "none" => highlightedEvent = lastSelected.item

YearsOfPreset == ("1Y" :> 1) @@ ("5Y" :> 5) @@ ("10Y" :> 10)

\* The same month and day, n years earlier.
SameDayYearsBefore(date, n) == [y |-> date.y - n, m |-> date.m, d |-> date.d]

\* C15: a preset click emits at once the range that ends on the
\* current date and starts on the same day 1, 5 or 10 years before it
\* (1987-05-20 for ALL); an edit in either picker emits nothing.
C15_PresetSameDayYearsBefore ==
    [][/\ lastClick'.action \in {"editStart", "editEnd"} => emitted' = emitted
       /\ lastClick'.action \in Presets =>
            /\ emitted'.n = emitted.n + 1
            /\ emitted'.last.end = FormatDate(lastClick'.now)
            /\ emitted'.last.start =
                 IF lastClick'.action = "ALL" THEN InitialStart
                 ELSE SameDayYearsBefore(lastClick'.now,
                                         YearsOfPreset[lastClick'.action])]_vars

Chronological(s) == \A i, j \in 1..Len(s) : i < j => s[i].date < s[j].date

ProbabilitiesValid(s) ==
    \A i \in 1..Len(s) : 0 < s[i].probability /\ s[i].probability <= 100

\* C16 as stated: the change points held (changePoints) and shown (the bars
\* of the chart) are in chronological order with no date twice, each with a
\* probability in (0, 1].
C16_HeldAndShownChronological ==
    /\ Chronological(changePoints) /\ ProbabilitiesValid(changePoints)
    /\ Chronological(cpChartData) /\ ProbabilitiesValid(cpChartData)

\* C16: the change points held are in chronological order with no date twice;
\* the bars shown are in order of non-increasing probability with no date
\* twice; every probability is in (0, 1].
C16_HeldChronologicalShownByProbability ==
    /\ Chronological(changePoints) /\ ProbabilitiesValid(changePoints)
    /\ ProbabilitiesValid(cpChartData)
    /\ \A i, j \in 1..Len(cpChartData) :
         i < j => /\ cpChartData[i].probability >= cpChartData[j].probability
                  /\ cpChartData[i].date # cpChartData[j].date

\* Several change points are held and their bars are in another order.
C16_Witness ==
    /\ Len(changePoints) >= 2
    /\ cpChartData = ChartData(changePoints)
    /\ DatesOf(cpChartData) # DatesOf(changePoints)
    /\ ~loading /\ error = NoError

\* C17: with n prices there are n - 1 returns, row 0 of the price chart
\* carries no return, and every later row carries the return computed from
\* its price and the price before it.
C17_ReturnOnLaterDate ==
    (~priceData.isNull /\ Len(priceData.prices) >= 1) =>
        /\ Len(priceData.returns) = Len(priceData.prices) - 1
        /\ Len(pcChartData) = Len(priceData.prices)
        /\ pcChartData[1].returns = NoReturn
        /\ \A k \in 2..Len(pcChartData) :
             pcChartData[k].returns =
                 LogReturn(priceData.prices[k - 1], priceData.prices[k])

\* The maximal run of adjacent above-threshold indices around index i.
RunAround(post, i) ==
    {j \in 1..Len(post) :
        \A k \in 1..Len(post) :
            ((i <= k /\ k <= j) \/ (j <= k /\ k <= i)) => post[k] > Threshold}

\* C18: every emitted ChangePoint has a probability strictly above the
\* threshold, any two are at least the minimum separation apart, and the one
\* index retained from a run of adjacent above-threshold indices has the
\* highest probability of the run.
C18_SummarizerPolicy ==
    summarized =>
        /\ \A k \in 1..Len(cpOut) :
             /\ cpOut[k].probability = posterior[cpOut[k].index]
             /\ cpOut[k].probability > Threshold
             /\ \A j \in RunAround(posterior, cpOut[k].index) :
                  posterior[j] <= cpOut[k].probability
        /\ \A k, l \in 1..Len(cpOut) :
             k # l => /\ Abs(cpOut[k].index - cpOut[l].index) >= MinSeparation
                      /\ cpOut[l].index \notin RunAround(posterior, cpOut[k].index)

\* Two change points are emitted, one of them from inside a longer run.
C18_Witness ==
    /\ summarized
    /\ Len(cpOut) >= 2
    /\ \E k \in 1..Len(cpOut) :
         LET run == RunAround(posterior, cpOut[k].index)
         IN Cardinality(run) >= 2 /\ cpOut[k].index # MinOf(run)

ImpactClipped(input) ==
    input.anchor - input.window < 1 \/ input.anchor + input.window > Len(input.prices)

\* C19: for an impact window that reaches before the first or after the last
\* price, the ImpactRecord is emitted, flagged partial_window, with a
\* percent_change that is not null.
C19_ClippedWindowStillEmitted ==
    (quantified /\ ImpactClipped(impactInput)) =>
        /\ Len(impactRecord) = 1
        /\ impactRecord[1].partial_window
        /\ ~impactRecord[1].percent_change.isNull

\* A window with no observation left on one side, and a non-zero change.
C19_Witness ==
    /\ quantified
    /\ impactInput.anchor = 1
    /\ Len(impactRecord) = 1
    /\ impactRecord[1].partial_window
    /\ impactRecord[1].percent_change.value # 0

\* C20: the merge happens only in a state where every chain has completed or
\* timed out, and a step that changes the samples of one chain is a step of
\* that running chain which leaves every other chain as it was.
C20_MergeOnlyAtBarrier ==
    /\ [](merged => \A c \in Chains : chainState[c] \in {"completed", "timedOut"})
    /\ [][/\ (merged' /\ ~merged) => \A c \in Chains : chainState[c] # "running"
          /\ \A c \in Chains :
               chainSamples'[c] # chainSamples[c] =>
                   /\ chainState[c] = "running" /\ ~merged
                   /\ \A d \in Chains \ {c} :
                        /\ chainSamples'[d] = chainSamples[d]
                        /\ chainState'[d] = chainState[d]]_vars

\* A merge of the samples of a completed chain and of a timed-out chain.
C20_Witness ==
    /\ merged
    /\ \E c, d \in Chains : chainState[c] = "completed" /\ chainState[d] = "timedOut"
    /\ Len(mergedSamples) >= 2

\* C21: an inference run that was started eventually returns, and a result
\* returned with the iteration-count or wall-clock budget used up carries the
\* tag of a possibly unconverged result.
C21_BudgetedInferenceReturns ==
    /\ (inferBudget # NoBudget) ~> inferResult.returned
    /\ [](inferResult.returned =>
            ((iterations >= inferBudget.iterations \/ elapsed >= inferBudget.wallClock)
                => inferResult.tag = "unconverged"))

\* A run that used up its iteration budget before the clock ran out.
C21_Witness ==
    /\ inferResult.returned
    /\ inferResult.tag = "unconverged"
    /\ iterations = inferBudget.iterations
    /\ elapsed < inferBudget.wallClock

\* C22: the chart has at most ten bars, each a change point of the current
\* changePoints, in order of non-increasing probability and ranked 1..n, and
\* no change point left out has a higher probability than a bar.
C22_TopTenBars ==
    /\ Len(cpChartData) <= 10
    /\ \A i \in 1..Len(cpChartData) :
         /\ cpChartData[i].index = i
         /\ \E j \in 1..Len(changePoints) :
              /\ changePoints[j].date = cpChartData[i].date
              /\ changePoints[j].probability = cpChartData[i].probability
    /\ \A i, j \in 1..Len(cpChartData) :
         i < j => cpChartData[i].probability >= cpChartData[j].probability
    /\ \A j \in 1..Len(changePoints) :
         (\A i \in 1..Len(cpChartData) : cpChartData[i].date # changePoints[j].date)
            => \A i \in 1..Len(cpChartData) :
                 changePoints[j].probability <= cpChartData[i].probability

\* C23: priceData, events and changePoints were last written by the same
\* batch in every state, and a step that ends a batch either writes all three
\* from it or changes none of them.
C23_SameBatch ==
    /\ [](/\ writes["priceData"].last = writes["events"].last
          /\ writes["events"].last = writes["changePoints"].last)
    /\ [][\A b \in inflight \ inflight' :
            \/ /\ writes'["priceData"].last = b.id
               /\ writes'["events"].last = b.id
               /\ writes'["changePoints"].last = b.id
            \/ /\ priceData' = priceData /\ events' = events
               /\ changePoints' = changePoints /\ writes' = writes]_vars

\* A filtered batch has failed and a later filtered batch has written.
C23_Witness ==
    /\ "filtered" \in failedBatches
    /\ writes["priceData"].last >= 3
    /\ writes["changePoints"].last = writes["priceData"].last

\* C24: from a state in which the initial load has failed and error is set,
\* every step leaves error set and the Dashboard on the error screen.
C24_ErrorSticks ==
    [][error = LoadError => (error' = LoadError /\ ~loading')]_vars

\* A filtered batch has written its data while the error screen stays.
C24_Witness ==
    /\ error = LoadError /\ ~loading
    /\ inflight = {}
    /\ writes["priceData"].last = 2

\* C25: after mount, loading eventually becomes false; when it is false,
\* either error is set and fetchAllData has written none of the six state
\* fields, or error is null and fetchAllData has written all six.
C25_LoadingEnds ==
    /\ mounted ~> ~loading
    /\ [](~loading =>
            \/ error # NoError /\ \A f \in StateFields : ~writes[f].byAll
            \/ error = NoError /\ \A f \in StateFields : writes[f].byAll)

\* The initial load has succeeded and all six fields hold its results.
C25_Witness ==
    /\ ~loading /\ error = NoError
    /\ \A f \in StateFields : writes[f].byAll
    /\ summary = BackendSummary /\ ~volatilityData.isNull

\* The set of dates of a list of dated records.
DateSet(s) == {s[i].date : i \in 1..Len(s)}

\* C26: after any sequence of prop updates the chart's bars are change points
\* of the latest changePoints prop and the timeline's bubbles are the events
\* with an impact of the latest events prop; a prop that became empty leaves
\* its chart empty.
C26_ChartsFollowLatestProp ==
    /\ Len(cpChartData) = MinNum(Len(propsGiven.changePoints), 10)
    /\ DateSet(cpChartData) \subseteq DateSet(propsGiven.changePoints)
    /\ Len(timelineData) = Len(SelectSeq(propsGiven.events, HasImpact))
    /\ \A i \in 1..Len(timelineData) :
         \E j \in 1..Len(propsGiven.events) :
            /\ propsGiven.events[j].hasImpact
            /\ propsGiven.events[j].name = timelineData[i].name
            /\ propsGiven.events[j].date = timelineData[i].date

\* C27: every range the picker has emitted has its start on or before its
\* end, whatever the sequence of edits, presets and applies before it.
C27_EmittedStartBeforeEnd ==
    emitted.n > 0 => DayLE(emitted.last.start, emitted.last.end)

\* C28: for every event shown both in the timeline and in the impact table,
\* the timeline's hasChangePoint equals the table's changePointDetected.
C28_FlagsAgree ==
    LET impactData == ImpactData(events, changePoints)
    IN \A i \in 1..Len(timelineData), j \in 1..Len(impactData) :
          (timelineData[i].name = impactData[j].name
             /\ timelineData[i].date = impactData[j].date)
            => timelineData[i].hasChangePoint = impactData[j].changePointDetected

\* Both views show two events: one flagged by a change point exactly thirty
\* days away, the other not flagged.
C28_Witness ==
    LET impactData == ImpactData(events, changePoints)
    IN /\ Len(timelineData) = 2 /\ Len(impactData) = 2
       /\ NamesOf(timelineData) = NamesOf(events)
       /\ \E i \in 1..2 :
            /\ timelineData[i].hasChangePoint
            /\ \A k \in 1..Len(changePoints) :
                 Abs(changePoints[k].date - timelineData[i].date) >= 30
       /\ \E i \in 1..2 : ~timelineData[i].hasChangePoint
       /\ \E j \in 1..2 : impactData[j].changePointDetected
       /\ \E j \in 1..2 : ~impactData[j].changePointDetected

\* C29: a change point of the details list is counted as high confidence
\* exactly when its badge is the success badge, so the count equals the number
\* of success badges when every change point is listed.
C29_CountMatchesSuccessBadges ==
    LET listed == Slice5(changePoints)
    IN /\ \A i \in 1..Len(listed) :
            HighConfidence(listed[i]) <=> BadgeBg(listed[i]) = "success"
       /\ Len(changePoints) \in 1..5 =>
            HighConfidenceCount(changePoints)
              = Cardinality({i \in 1..Len(listed) : BadgeBg(listed[i]) = "success"})

====
